---------------------------- MODULE Spec2Model ----------------------------
(***************************************************************************)
(* Model of the two command handlers of `step certificate`:               *)
(*   verifyAction  (src/command/certificate/verify.go)                     *)
(*   createAction  (src/unnamed/part_000)                                  *)
(* One process runs one handler from its first line to its return.  pc is  *)
(* the handler's position, ret its return value ("none" while running).    *)
(***************************************************************************)
EXTENDS Naturals, Sequences, FiniteSets, TLC

VARIABLES
    cmd,              \* the handler the command line selected
    pc,               \* position in the running handler
    ret,              \* value returned by the handler, "none" while it runs
    \* ---- verifyAction locals
    bundle,           \* PEM blocks of CRT_FILE as read (never changed afterwards)
    crtBytes,         \* the part of the file pem.Decode has not consumed yet
    crt,              \* leaf certificate, NIL until parsed
    ipems,            \* re-encoded CERTIFICATE blocks after the leaf
    intermediatePool, \* x509.CertPool built from ipems
    host,             \* --host
    roots,            \* --roots
    rootPool,         \* *x509.CertPool, nil until --roots is loaded
    err,              \* the function-level err variable of verifyAction
    pki,              \* what the certificates say: needed intermediates, anchor, names
    verifyCalled,     \* crt.Verify(opts) has been invoked
    \* ---- createAction locals and effects
    flags,            \* the command line of create
    usePassword,
    typ,              \* typ after the --csr override
    pubPEM,           \* NIL, "CSR" or "CERTIFICATE"
    priv,             \* TRUE once a private key has been generated
    caRead,           \* LoadIdentityFromDisk has read the issuer files
    caPrompts,        \* password prompts shown for the CA key
    keyPrompts,       \* password prompts shown for the new key
    pass,             \* passphrase handed to keys.WritePrivateKey
    keyWriteCalled,   \* keys.WritePrivateKey has been invoked
    crtOut,           \* NIL or the file written by ioutil.WriteFile
    keyOut            \* NIL or the file written by keys.WritePrivateKey

vvars == <<bundle, crtBytes, crt, ipems, intermediatePool, host, roots,
           rootPool, err, pki, verifyCalled>>
cvars == <<flags, usePassword, typ, pubPEM, priv, caRead, caPrompts,
           keyPrompts, pass, keyWriteCalled, crtOut, keyOut>>
vars == <<cmd, pc, ret, vvars, cvars>>

NIL == "nil"

\* ------------------------------------------------------------------ bounds
MaxBlocks == 3
MaxPrompts == 2

\* ------------------------------------------------------- verify: the data
\* DER payloads a CERTIFICATE block can carry: two certificates and garbage.
GoodDER == {"c1", "c2"}
DER == GoodDER \cup {"bad"}

\* A decoded pem.Block.  Headers is TRUE when the block carries PEM headers.
CertBlocks == [Type : {"CERTIFICATE"}, Bytes : DER, Headers : BOOLEAN]
OtherBlocks == {[Type |-> "RSA PRIVATE KEY", Bytes |-> "key", Headers |-> FALSE]}
Blocks == CertBlocks \cup OtherBlocks

\* The files ioutil.ReadFile can return: every sequence of PEM blocks up to
\* MaxBlocks.  Bytes that are not part of a PEM block are invisible to
\* pem.Decode, so an empty file and a file without any PEM data are <<>>.
Bundles == UNION {[1..n -> Blocks] : n \in 0..MaxBlocks}

\* x509.ParseCertificate: a parsed certificate or a parse error.
\* The result is named by the certificate's subject.
Subject(der) == CASE der = "c1" -> "CN=one" [] der = "c2" -> "CN=two"
Certs == {Subject(d) : d \in GoodDER}
ParseCertificate(der) ==
    IF der \in GoodDER THEN [ok |-> TRUE, cert |-> Subject(der)]
                       ELSE [ok |-> FALSE, cert |-> NIL]

\* block.Type != "CERTIFICATE" (negated)
\* Faulty variant: the type test is dropped.
IsCertificate_TypeIgnored(block) == TRUE
IsCertificate(block) == block.Type = "CERTIFICATE"

\* pool.AppendCertsFromPEM(pems): blocks of another type, blocks with
\* headers and blocks that do not parse are skipped; ok iff one was added.
AppendCertsFromPEM(pems) ==
    LET added == {ParseCertificate(pems[i].Bytes).cert :
                     i \in {j \in 1..Len(pems) :
                              /\ pems[j].Type = "CERTIFICATE"
                              /\ ~pems[j].Headers
                              /\ ParseCertificate(pems[j].Bytes).ok}}
    IN [ok |-> added # {}, certs |-> added]

\* Trust anchors.
SystemRoots == {"sysRoot"}
Anchors == {"rootA", "sysRoot"}
RootSpecs == {"", "roots.pem", "dir-with-bad-file"}
Hosts == {"", "example.com"}

\* stepx509.ReadCertPool: a pool, or an error and no pool (fail-closed).
\* A *x509.CertPool is the nil pointer or a set of certificates.
NilPool == [isNil |-> TRUE, certs |-> {}]
NewCertPool(certs) == [isNil |-> FALSE, certs |-> certs]
ReadCertPool(spec) ==
    IF spec = "roots.pem"
    THEN [pool |-> NewCertPool({"rootA"}), err |-> NIL]
    ELSE [pool |-> NilPool, err |-> "TrustPoolLoadError"]

\* What path validation depends on: the intermediates the leaf's only path
\* needs, the anchor that path ends in ("none": expired, unsigned, ...), and
\* whether the leaf's names match the host asked for.
PKIFacts == [need : SUBSET Certs,
             anchor : Anchors \cup {"none"},
             hostMatch : BOOLEAN]
NoFacts == [need |-> {}, anchor |-> "none", hostMatch |-> FALSE]

\* (*x509.Certificate).Verify(opts): nil Roots means the system store.
X509Verify(facts, opts) ==
    LET anchors == IF opts.Roots.isNil THEN SystemRoots ELSE opts.Roots.certs
    IN /\ facts.need \subseteq opts.Intermediates
       /\ facts.anchor \in anchors
       /\ (opts.DNSName = "" \/ facts.hostMatch)

\* --------------------------------------------------------- create: the data
Paths == {"a.pem", "b.pem"}
Types == {"x509", "x509-csr", "ssh", "pgp"}
Profiles == {"leaf", "intermediate-ca", "root-ca", "server"}
CAPaths == {"", "ca.crt"}
CAKeyPaths == {"", "ca.key"}

\* The command lines of create.  ctx.Args().Get(2) is "" when only two
\* positional arguments are given.
Flags == {f \in [nargs : {2, 3}, noPassword : BOOLEAN, insecure : BOOLEAN,
                  crtFile : Paths, keyFile : Paths \cup {""},
                  type : Types, profile : Profiles, csr : BOOLEAN,
                  ca : CAPaths, caKey : CAKeyPaths] :
             (f.nargs = 2) <=> (f.keyFile = "")}
NoFlags == [nargs |-> 0, noPassword |-> FALSE, insecure |-> FALSE,
            crtFile |-> "", keyFile |-> "", type |-> "", profile |-> "",
            csr |-> FALSE, ca |-> "", caKey |-> ""]

\* A file on disk: its path and what it holds.
NoFile == [path |-> "", content |-> ""]

\* What the terminal can give a password prompt: a line, or end of input.
EOF == "<eof>"
PromptInputs == {"", "hunter2", "wrong", EOF}

\* ------------------------------------------------------------------- Init
Init ==
    /\ cmd = "none"
    /\ pc = "idle"
    /\ ret = "none"
    /\ bundle = <<>>
    /\ crtBytes = <<>>
    /\ crt = NIL
    /\ ipems = <<>>
    /\ intermediatePool = {}
    /\ host = ""
    /\ roots = ""
    /\ rootPool = NilPool
    /\ err = NIL
    /\ pki = NoFacts
    /\ verifyCalled = FALSE
    /\ flags = NoFlags
    /\ usePassword = TRUE
    /\ typ = ""
    /\ pubPEM = NIL
    /\ priv = FALSE
    /\ caRead = FALSE
    /\ caPrompts = 0
    /\ keyPrompts = 0
    /\ pass = ""
    /\ keyWriteCalled = FALSE
    /\ crtOut = NoFile
    /\ keyOut = NoFile

Return(e) == pc' = "done" /\ ret' = e

\* ============================================================ verifyAction
\* errs.NumberOfArguments(ctx, 1) and ioutil.ReadFile(crtFile)
VerifyStart ==
    /\ pc = "idle"
    /\ cmd' = "verify"
    /\ \E nargs \in {0, 1}, readable \in BOOLEAN, file \in Bundles :
         IF nargs # 1
         THEN Return("NumberOfArguments") /\ UNCHANGED <<vvars, cvars>>
         ELSE IF ~readable
         THEN Return("FileError") /\ UNCHANGED <<vvars, cvars>>
         ELSE /\ pc' = "v_loop"
              /\ bundle' = file
              /\ crtBytes' = file
              /\ UNCHANGED <<ret, crt, ipems, intermediatePool, host, roots,
                             rootPool, err, pki, verifyCalled, cvars>>

\* One iteration of `for len(crtBytes) > 0`, or the exit of the loop.
VerifyLoop ==
    /\ UNCHANGED cmd
    /\ pc = "v_loop"
    /\ IF crtBytes = <<>>
       THEN /\ pc' = "v_pool"
            /\ UNCHANGED <<ret, vvars, cvars>>
       ELSE LET block == Head(crtBytes) IN
            /\ crtBytes' = Tail(crtBytes)
            /\ IF ~IsCertificate(block)
               THEN UNCHANGED <<pc, ret, crt, ipems, err>>
               ELSE IF crt = NIL
               THEN LET p == ParseCertificate(block.Bytes) IN
                    IF p.ok
                    THEN crt' = p.cert /\ UNCHANGED <<pc, ret, ipems, err>>
                    ELSE /\ Return("CertificateParseError")
                         /\ err' = "CertificateParseError"
                         /\ UNCHANGED <<crt, ipems>>
               ELSE /\ ipems' = Append(ipems, block)
                    /\ UNCHANGED <<pc, ret, crt, err>>
            /\ UNCHANGED <<bundle, intermediatePool, host, roots, rootPool,
                           pki, verifyCalled, cvars>>

\* if len(ipems) > 0 && !intermediatePool.AppendCertsFromPEM(ipems)
VerifyIntermediates ==
    /\ UNCHANGED cmd
    /\ pc = "v_pool"
    /\ LET r == AppendCertsFromPEM(ipems) IN
       IF Len(ipems) > 0
       THEN /\ intermediatePool' = r.certs
            /\ IF ~r.ok THEN Return("IntermediateListError")
                        ELSE pc' = "v_roots" /\ UNCHANGED ret
       ELSE pc' = "v_roots" /\ UNCHANGED <<ret, intermediatePool>>
    /\ UNCHANGED <<bundle, crtBytes, crt, ipems, host, roots, rootPool, err,
                   pki, verifyCalled, cvars>>

\* host, roots := flags; if roots != "" { rootPool, err = ReadCertPool(roots);
\* if err != nil { errors.Wrapf(...) } }: the wrapped error is dropped.
VerifyRoots ==
    /\ UNCHANGED cmd
    /\ pc = "v_roots"
    /\ \E h \in Hosts, r \in RootSpecs :
         /\ host' = h
         /\ roots' = r
         /\ IF r # ""
            THEN /\ rootPool' = ReadCertPool(r).pool
                 /\ err' = ReadCertPool(r).err
            ELSE UNCHANGED <<rootPool, err>>
    /\ pc' = "v_verify"
    /\ UNCHANGED <<ret, bundle, crtBytes, crt, ipems, intermediatePool, pki,
                   verifyCalled, cvars>>

\* opts := VerifyOptions{...}; crt.Verify(opts).  A nil crt is dereferenced
\* by Verify: the handler panics and returns nothing.
VerifyChain ==
    /\ UNCHANGED cmd
    /\ pc = "v_verify"
    /\ verifyCalled' = TRUE
    /\ LET opts == [DNSName |-> host, Roots |-> rootPool,
                    Intermediates |-> intermediatePool] IN
       IF crt = NIL
       THEN Return("panic") /\ UNCHANGED pki
       ELSE \E facts \in PKIFacts :
              /\ pki' = facts
              /\ IF X509Verify(facts, opts) THEN Return(NIL)
                                            ELSE Return("VerificationError")
    /\ UNCHANGED <<bundle, crtBytes, crt, ipems, intermediatePool, host,
                   roots, rootPool, err, cvars>>

VerifyNext ==
    VerifyStart \/ VerifyLoop \/ VerifyIntermediates \/ VerifyRoots \/ VerifyChain

\* ============================================================ createAction
\* Lines 107-115: usePassword, or the error for --no-password alone.
\* Faulty variant: --no-password is honoured without --insecure.
PasswordPolicy_InsecureNotRequired(noPassword, insecure) ==
    IF noPassword THEN "plain" ELSE "password"
PasswordPolicy(noPassword, insecure) ==
    IF noPassword
    THEN IF insecure THEN "plain" ELSE "RequiredWithFlag"
    ELSE "password"

\* crtFile == keyFile
\* Faulty variant: the comparison is dropped.
SameFile_NeverEqual(crtFile, keyFile) == FALSE
SameFile(crtFile, keyFile) == crtFile = keyFile

\* if ctx.Bool("csr") { typ = "x509-csr" }
EffectiveType(type, csr) == IF csr THEN "x509-csr" ELSE type

\* switch typ
TypeBranch(t) ==
    CASE t = "x509-csr" -> "csr"
      [] t = "x509" -> "x509"
      [] t = "ssh" -> "NotImplemented"
      [] OTHER -> "InvalidFlagValue:type"

\* switch prof
\* Faulty variant: the default case falls into root-ca.
ProfileBranch_DefaultIsRoot(prof) ==
    CASE prof \in {"leaf", "intermediate-ca"} -> "issuer"
      [] OTHER -> "root"
ProfileBranch(prof) ==
    CASE prof \in {"leaf", "intermediate-ca"} -> "issuer"
      [] prof = "root-ca" -> "root"
      [] OTHER -> "InvalidFlagValue:profile"

\* loadIssuerIdentity, the two flag checks
\* Faulty variant: --ca-key is not checked.
MissingIssuerFlag_KeyNotChecked(caPath, caKeyPath) ==
    IF caPath = "" THEN "MissingFlag:--ca" ELSE NIL
MissingIssuerFlag(caPath, caKeyPath) ==
    IF caPath = "" THEN "MissingFlag:--ca"
    ELSE IF caKeyPath = "" THEN "MissingFlag:--ca-key"
    ELSE NIL

\* reader.ReadPasswordSubtle(..., reader.RetryOnEmpty) on one line of input:
\* an empty line asks again, end of input is an error, any other line is
\* the password.
ReadPasswordSubtle(input) ==
    CASE input = EOF -> [again |-> FALSE, err |-> "PromptError", val |-> ""]
      [] input = "" -> [again |-> TRUE, err |-> NIL, val |-> ""]
      [] OTHER -> [again |-> FALSE, err |-> NIL, val |-> input]

\* keys.WritePrivateKey(priv, pass, keyFile): the PEM is encrypted with pass
\* unless pass is empty.
KeyFile(keyFile, password) ==
    [path |-> keyFile,
     content |-> IF password = "" THEN "PRIVATE KEY" ELSE "ENCRYPTED PRIVATE KEY"]

\* errs.NumberOfArguments(ctx, 3)
CreateStart ==
    /\ pc = "idle"
    /\ cmd' = "create"
    /\ \E f \in Flags :
         /\ flags' = f
         /\ IF f.nargs # 3 THEN Return("NumberOfArguments")
                           ELSE pc' = "c_flags" /\ UNCHANGED ret
    /\ UNCHANGED <<vvars, usePassword, typ, pubPEM, priv, caRead, caPrompts,
                   keyPrompts, pass, keyWriteCalled, crtOut, keyOut>>

\* usePassword := true; if no-password { if insecure {...} else { return } }
CreateFlags ==
    /\ pc = "c_flags"
    /\ LET p == PasswordPolicy(flags.noPassword, flags.insecure) IN
       IF p = "RequiredWithFlag"
       THEN Return("RequiredWithFlag") /\ UNCHANGED usePassword
       ELSE /\ usePassword' = (p = "password")
            /\ pc' = "c_paths"
            /\ UNCHANGED ret
    /\ UNCHANGED <<cmd, vvars, flags, typ, pubPEM, priv, caRead, caPrompts,
                   keyPrompts, pass, keyWriteCalled, crtOut, keyOut>>

\* if crtFile == keyFile { return errs.EqualArguments(...) }
CreatePaths ==
    /\ pc = "c_paths"
    /\ IF SameFile(flags.crtFile, flags.keyFile)
       THEN Return("EqualArguments")
       ELSE pc' = "c_type" /\ UNCHANGED ret
    /\ UNCHANGED <<cmd, vvars, cvars>>

\* typ, prof := flags; the --csr override; switch typ { ... switch prof }
CreateDispatch ==
    /\ pc = "c_type"
    /\ typ' = EffectiveType(flags.type, flags.csr)
    /\ LET t == TypeBranch(typ')
           b == ProfileBranch(flags.profile) IN
       IF t = "csr" THEN pc' = "c_csr" /\ UNCHANGED ret
       ELSE IF t = "x509"
       THEN IF b = "issuer" THEN pc' = "c_issuer" /\ UNCHANGED ret
            ELSE IF b = "root" THEN pc' = "c_profile" /\ UNCHANGED ret
            ELSE Return(b)
       ELSE Return(t)
    /\ UNCHANGED <<cmd, vvars, flags, usePassword, pubPEM, priv, caRead,
                   caPrompts, keyPrompts, pass, keyWriteCalled, crtOut, keyOut>>

\* case "x509-csr": keys.GenerateDefaultKey, x509.CreateCertificateRequest
CreateCSR ==
    /\ pc = "c_csr"
    /\ \E outcome \in {"KeyGenerationError", "RequestError", "ok"} :
         /\ priv' = (outcome # "KeyGenerationError")
         /\ IF outcome = "ok"
            THEN pubPEM' = "CSR" /\ pc' = "c_writecrt" /\ UNCHANGED ret
            ELSE Return(outcome) /\ UNCHANGED pubPEM
    /\ UNCHANGED <<cmd, vvars, flags, usePassword, typ, caRead, caPrompts,
                   keyPrompts, pass, keyWriteCalled, crtOut, keyOut>>

\* loadIssuerIdentity up to the call of LoadIdentityFromDisk
CreateIssuerFlags ==
    /\ pc = "c_issuer"
    /\ LET e == MissingIssuerFlag(flags.ca, flags.caKey) IN
       IF e # NIL THEN Return(e) ELSE pc' = "c_loadca" /\ UNCHANGED ret
    /\ UNCHANGED <<cmd, vvars, cvars>>

\* stepx509.LoadIdentityFromDisk: reads both files; an encrypted key asks the
\* callback for its password.
CreateLoadIdentity ==
    /\ pc = "c_loadca"
    /\ caRead' = TRUE
    /\ \E outcome \in {"IssuerReadError", "plain", "encrypted"} :
         IF outcome = "IssuerReadError" THEN Return(outcome)
         ELSE IF outcome = "plain" THEN pc' = "c_profile" /\ UNCHANGED ret
         ELSE pc' = "c_caprompt" /\ UNCHANGED ret
    /\ UNCHANGED <<cmd, vvars, flags, usePassword, typ, pubPEM, priv,
                   caPrompts, keyPrompts, pass, keyWriteCalled, crtOut, keyOut>>

\* The password callback of loadIssuerIdentity, one prompt per step.
CreateCAPassword ==
    /\ pc = "c_caprompt"
    /\ caPrompts' = caPrompts + 1
    /\ \E input \in PromptInputs :
         LET r == ReadPasswordSubtle(input) IN
         IF r.again THEN caPrompts + 1 < MaxPrompts /\ UNCHANGED <<pc, ret>>
         ELSE IF r.err # NIL THEN Return(r.err)
         ELSE IF r.val = "wrong" THEN Return("KeyDecryptionError")
         ELSE pc' = "c_profile" /\ UNCHANGED ret
    /\ UNCHANGED <<cmd, vvars, flags, usePassword, typ, pubPEM, priv, caRead,
                   keyPrompts, pass, keyWriteCalled, crtOut, keyOut>>

\* NewLeafProfile / NewIntermediateProfile / NewRootProfile (a fresh subject
\* key), profile.CreateCertificate(), priv = profile.SubjectPrivateKey()
CreateProfile ==
    /\ pc = "c_profile"
    /\ \E outcome \in {"ProfileError", "SigningError", "ok"} :
         /\ priv' = (outcome # "ProfileError")
         /\ IF outcome = "ok"
            THEN pubPEM' = "CERTIFICATE" /\ pc' = "c_writecrt" /\ UNCHANGED ret
            ELSE Return(outcome) /\ UNCHANGED pubPEM
    /\ UNCHANGED <<cmd, vvars, flags, usePassword, typ, caRead, caPrompts,
                   keyPrompts, pass, keyWriteCalled, crtOut, keyOut>>

\* ioutil.WriteFile(crtFile, pem.EncodeToMemory(pubPEM), 0600); a failure is
\* a file that could not be created.
CreateWriteCrt ==
    /\ pc = "c_writecrt"
    /\ \E written \in BOOLEAN :
         IF written
         THEN /\ crtOut' = [path |-> flags.crtFile, content |-> pubPEM]
              /\ pc' = "c_keypass"
              /\ UNCHANGED ret
         ELSE Return("FileError") /\ UNCHANGED crtOut
    /\ UNCHANGED <<cmd, vvars, flags, usePassword, typ, pubPEM, priv, caRead,
                   caPrompts, keyPrompts, pass, keyWriteCalled, keyOut>>

\* var pass string; if usePassword { reader.ReadPasswordSubtle(..., &pass, ...) }
CreateKeyPassword ==
    /\ pc = "c_keypass"
    /\ IF usePassword
       THEN /\ keyPrompts' = keyPrompts + 1
            /\ \E input \in PromptInputs :
                 LET r == ReadPasswordSubtle(input) IN
                 IF r.again
                 THEN keyPrompts + 1 < MaxPrompts /\ UNCHANGED <<pc, ret, pass>>
                 ELSE IF r.err # NIL THEN Return(r.err) /\ UNCHANGED pass
                 ELSE pass' = r.val /\ pc' = "c_writekey" /\ UNCHANGED ret
       ELSE pc' = "c_writekey" /\ UNCHANGED <<ret, pass, keyPrompts>>
    /\ UNCHANGED <<cmd, vvars, flags, usePassword, typ, pubPEM, priv, caRead,
                   caPrompts, keyWriteCalled, crtOut, keyOut>>

\* keys.WritePrivateKey(priv, pass, keyFile); return nil
CreateWriteKey ==
    /\ pc = "c_writekey"
    /\ keyWriteCalled' = TRUE
    /\ \E written \in BOOLEAN :
         IF written
         THEN keyOut' = KeyFile(flags.keyFile, pass) /\ Return(NIL)
         ELSE Return("KeyWriteError") /\ UNCHANGED keyOut
    /\ UNCHANGED <<cmd, vvars, flags, usePassword, typ, pubPEM, priv, caRead,
                   caPrompts, keyPrompts, pass, crtOut>>

CreateNext ==
    \/ CreateStart \/ CreateFlags \/ CreatePaths \/ CreateDispatch
    \/ CreateCSR \/ CreateIssuerFlags \/ CreateLoadIdentity
    \/ CreateCAPassword \/ CreateProfile \/ CreateWriteCrt
    \/ CreateKeyPassword \/ CreateWriteKey

Next == VerifyNext \/ CreateNext

Spec == Init /\ [][Next]_vars

\* ================================================================== claims
OfTypeCertificate(b) == b.Type = "CERTIFICATE"
\* The blocks pem.Decode has handed to the loop so far, and the certificate
\* blocks among them and in the whole file.
Consumed == SubSeq(bundle, 1, Len(bundle) - Len(crtBytes))
ConsumedCertificates == SelectSeq(Consumed, OfTypeCertificate)
FileCertificates == SelectSeq(bundle, OfTypeCertificate)
LoopFinished == cmd = "verify" /\ pc \in {"v_pool", "v_roots", "v_verify"}
NoFilesWritten == crtOut = NoFile /\ keyOut = NoFile
\* Intermediates of the file as the claims speak of them: the CERTIFICATE
\* blocks after the first.
LaterCertificates == IF FileCertificates = <<>> THEN <<>> ELSE Tail(FileCertificates)
Malformed(b) == ~ParseCertificate(b.Bytes).ok

C2_FailClosedRoots ==
    cmd = "verify" =>
      /\ (roots # "" /\ err = "TrustPoolLoadError") =>
            pc = "done" /\ ret = "TrustPoolLoadError" /\ ~verifyCalled
      /\ (verifyCalled /\ rootPool.isNil) => roots = ""

\* C3: the key file is written unencrypted only with --no-password and
\* --insecure together; every other key write gets the non-empty answer of
\* the prompt; --no-password without --insecure is a configuration error
\* before any key is generated or any file written.
ConfigurationErrors == {"NumberOfArguments", "RequiredWithFlag", "EqualArguments"}
C3_KeyProtection ==
    cmd = "create" =>
      /\ (keyOut # NoFile /\ keyOut.content = "PRIVATE KEY") =>
            flags.noPassword /\ flags.insecure
      /\ keyWriteCalled =>
            IF flags.noPassword /\ flags.insecure
            THEN pass = "" /\ keyPrompts = 0
            ELSE pass # "" /\ pass \in PromptInputs \ {EOF} /\ keyPrompts >= 1
      /\ keyOut # NoFile =>
            keyOut.content = IF flags.noPassword /\ flags.insecure
                             THEN "PRIVATE KEY" ELSE "ENCRYPTED PRIVATE KEY"
      /\ (flags.noPassword /\ ~flags.insecure) =>
            /\ ~priv /\ ~keyWriteCalled /\ NoFilesWritten
            /\ keyPrompts = 0 /\ caPrompts = 0 /\ ~caRead
            /\ pc = "done" => ret \in {"NumberOfArguments", "RequiredWithFlag"}
            /\ (pc = "done" /\ flags.nargs = 3) => ret = "RequiredWithFlag"

\* C3 witness: a run with both flags has written the key without a password.
C3_Witness ==
    /\ cmd = "create" /\ pc = "done" /\ ret = NIL
    /\ flags.noPassword /\ flags.insecure
    /\ keyOut = [path |-> flags.keyFile, content |-> "PRIVATE KEY"]

\* The run gets past the argument, flag and path checks (C3, C5) and asks for
\* an x.509 certificate, so that its --profile decides what is built.
PassesArgumentChecks ==
    /\ flags.nargs = 3
    /\ ~(flags.noPassword /\ ~flags.insecure)
    /\ flags.crtFile # flags.keyFile
CertificateRun == PassesArgumentChecks /\ ~flags.csr /\ flags.type = "x509"
NeedsIssuer == CertificateRun /\ flags.profile \in {"leaf", "intermediate-ca"}
IssuerErrors == {"MissingFlag:--ca", "MissingFlag:--ca-key", "IssuerReadError",
                 "KeyDecryptionError"}

\* C4: an issuer identity is required and loaded exactly for the leaf and
\* intermediate-ca profiles.  A certificate run with one of them and an empty
\* --ca or --ca-key fails naming the absent flag (--ca first) before any file
\* is read or written, any key generated and any password prompt; such a run
\* builds nothing before the issuer is loaded; every other run (root-ca, CSR)
\* never loads an issuer, never prompts for the CA key and never fails with an
\* issuer error.
C4_IssuerRequired ==
    cmd = "create" =>
      /\ (NeedsIssuer /\ (flags.ca = "" \/ flags.caKey = "")) =>
            /\ ~caRead /\ caPrompts = 0 /\ keyPrompts = 0
            /\ ~priv /\ pubPEM = NIL /\ NoFilesWritten
            /\ pc = "done" =>
                 ret = IF flags.ca = "" THEN "MissingFlag:--ca"
                                        ELSE "MissingFlag:--ca-key"
      /\ (NeedsIssuer /\ (priv \/ pubPEM # NIL \/ ~NoFilesWritten)) => caRead
      /\ ~NeedsIssuer =>
            ~caRead /\ caPrompts = 0 /\ ret \notin IssuerErrors

\* C4 witness: an intermediate-ca run with --ca but no --ca-key has failed.
C4_Witness ==
    /\ cmd = "create" /\ pc = "done"
    /\ flags.profile = "intermediate-ca" /\ ~flags.csr /\ flags.type = "x509"
    /\ flags.ca # "" /\ flags.caKey = ""
    /\ ret = "MissingFlag:--ca-key"

\* C5: a run whose crt_file equals key_file returns a configuration error,
\* generates no key, reads no issuer, prompts for no password and writes no
\* file; so the certificate/CSR and the key are never written to one path.
C5_DistinctOutputs ==
    cmd = "create" =>
      /\ flags.crtFile = flags.keyFile =>
            /\ ~priv /\ ~caRead /\ caPrompts = 0 /\ keyPrompts = 0
            /\ ~keyWriteCalled /\ NoFilesWritten
            /\ pc = "done" => ret \in ConfigurationErrors
      /\ (crtOut # NoFile /\ keyOut # NoFile) => crtOut.path # keyOut.path

\* C5 witness: a run with equal paths has been rejected.
C5_Witness ==
    /\ cmd = "create" /\ pc = "done"
    /\ flags.crtFile = flags.keyFile
    /\ ret = "EqualArguments"

\* C6: corruption in the bundle is always reported: a first CERTIFICATE block
\* that does not parse gives the certificate parse error; any malformed later
\* CERTIFICATE block gives the intermediate-list error, and path validation
\* is not reached.
C6_CorruptionReported ==
    cmd = "verify" =>
      /\ (pc = "done" /\ ret \notin {"NumberOfArguments", "FileError"}
            /\ FileCertificates # <<>> /\ Malformed(FileCertificates[1])) =>
            ret = "CertificateParseError"
      /\ (crt # NIL /\ pc \in {"v_roots", "v_verify", "done"}
            /\ \E i \in 1..Len(LaterCertificates) : Malformed(LaterCertificates[i])) =>
            pc = "done" /\ ret = "IntermediateListError" /\ ~verifyCalled

\* C7 as claimed, read for runs that get past the argument checks and setting
\* failures of the environment (key generation, signing, disk, prompt) aside:
\* an unknown --profile fails with the invalid-profile error, a --type outside
\* x509 and ssh fails with the invalid-type error, ssh fails as unimplemented;
\* no file is written.
KnownProfiles == {"leaf", "intermediate-ca", "root-ca"}
EnvironmentErrors == {"KeyGenerationError", "RequestError", "ProfileError",
                      "SigningError", "IssuerReadError", "KeyDecryptionError",
                      "FileError", "PromptError", "KeyWriteError"}
BundleIntermediates ==
    {ParseCertificate(LaterCertificates[i].Bytes).cert :
        i \in {j \in 1..Len(LaterCertificates) : ~Malformed(LaterCertificates[j])}}
NamedAnchors == IF roots = "" THEN SystemRoots ELSE ReadCertPool(roots).pool.certs
ValidChainExists ==
    /\ crt # NIL
    /\ pki.need \subseteq BundleIntermediates
    /\ pki.anchor \in NamedAnchors
    /\ (host = "" \/ pki.hostMatch)

\* C8: verifyAction returns nil iff a valid chain to an anchor of the --roots
\* pool exists and the host, when given, matches; every other outcome of path
\* validation is the wrapped verification error.
C8_SuccessIffValidChain ==
    (cmd = "verify" /\ pc = "done") =>
      /\ ret = NIL <=> ValidChainExists
      /\ (verifyCalled /\ crt # NIL /\ ~ValidChainExists) => ret = "VerificationError"

\* C9: path validation never runs without a parsed leaf: a readable file
\* without a CERTIFICATE block makes verifyAction return an error value.
C9_NoVerifyWithoutLeaf ==
    cmd = "verify" =>
      /\ verifyCalled => crt # NIL
      /\ (pc = "done" /\ crt = NIL) => ret \notin {NIL, "panic"}

\* C10: create is all-or-nothing: a run that returns an error has written
\* neither file, and a certificate file is never on disk without its key file
\* once the run has returned.
C10_AllOrNothing ==
    (cmd = "create" /\ pc = "done") =>
      /\ ret # NIL => NoFilesWritten
      /\ crtOut # NoFile => keyOut # NoFile

=============================================================================
